---- MODULE Spec2Model ----
(***************************************************************************)
(* Model of dataset_coco2017/coco2017_offline_setup.py: the orchestrator   *)
(* main(), the fetch stage download_coco2017(), the install stage          *)
(* install_coco2017() and the progress callback                            *)
(* UrlretrieveProgressIndicator.  The libraries the script calls           *)
(* (tensorflow_datasets, urllib.request.urlretrieve, tempfile) are the     *)
(* environment: each call is a nondeterministic choice over the outcomes   *)
(* the call can have.                                                      *)
(***************************************************************************)
EXTENDS Integers, Sequences, FiniteSets, TLC

\* ------------------------------------------------------------------ bounds

\* Most blocks one transfer reads before the connection must end.
MaxBlocks == 2
\* The block sizes a transfer may use: 1..MaxBlockSize.
MaxBlockSize == 2
\* The Content-Length values a server may announce: 0..MaxTotalSize
\* (and -1, urlretrieve's value when the header is missing).
MaxTotalSize == 2

\* ------------------------------------------------------- program constants

\* download_coco2017: the local names (basename of the URL path) of `urls`.
Urls ==
  << "annotations_trainval2017.zip", "image_info_test2017.zip",
     "test2017.zip", "train2017.zip", "val2017.zip" >>

\* main: the splits loaded by the three tfds.load calls, in order.
Splits == << "train", "validation", "test" >>

UrlIdx == 1..Len(Urls)
AllSplits == { Splits[i] : i \in 1..Len(Splits) }

BlockSizes == 1..MaxBlockSize
TotalSizes == (-1)..MaxTotalSize

\* ------------------------------------------------------------------- state

VARIABLES
  pc,             \* position of main()
  loadIdx,        \* which tfds.load call of the try block is next
  registry,       \* splits of coco/2017 present under TFDS_DATA_DIR
  dirExists,      \* os.path.exists(dlcache_dir)
  cache,          \* per manifest entry: "absent", "partial" or "data"
  urlIdx,         \* position of the for loop of download_coco2017
  blockNum,       \* urlretrieve's blocknum of the transfer under way
  blockSize,      \* urlretrieve's bs of the transfer under way
  totalSize,      \* urlretrieve's size of the transfer under way
  reporter,       \* the UrlretrieveProgressIndicator of the transfer
  staging,        \* the extract_tmp_ directory exists on disk
  tryFailure,     \* what failed inside main's try block ("none" if nothing)
  error,          \* the exception that ended the run ("none" if none)
  \* observations of the run under way
  cache0,         \* cache when the run started
  registry0,      \* registry when the run started
  attempts,       \* per manifest entry: urlretrieve calls of this run
  fetchCalls,     \* download_coco2017 calls of this run
  fetchReturned,  \* download_coco2017 returned normally in this run
  installCalls,   \* install_coco2017 calls of this run
  cacheAtInstall, \* cache when install_coco2017 was called
  stagingMade,    \* a staging directory was created in this run
  reported        \* sample counts printed in this run

vars ==
  << pc, loadIdx, registry, dirExists, cache, urlIdx, blockNum, blockSize,
     totalSize, reporter, staging, tryFailure, error, cache0, registry0,
     attempts, fetchCalls, fetchReturned, installCalls, cacheAtInstall,
     stagingMade, reported >>

persistent == << registry, dirExists, cache >>
transfer == << blockNum, blockSize, totalSize, reporter >>
observed ==
  << cache0, registry0, attempts, fetchCalls, fetchReturned, installCalls,
     cacheAtInstall, stagingMade, reported >>

NoFiles == [i \in UrlIdx |-> "absent"]
NoAttempts == [i \in UrlIdx |-> 0]

\* ------------------------------------------------------- progress reporter

\* Python's round() on the quotient n / d (d # 0): nearest integer, a tie
\* goes to the even neighbour.
Round(n, d) ==
  LET nn == IF d < 0 THEN -n ELSE n
      dd == IF d < 0 THEN -d ELSE d
      q  == nn \div dd
      r  == nn - q * dd
  IN  IF 2 * r < dd THEN q
      ELSE IF 2 * r > dd THEN q + 1
      ELSE IF q % 2 = 0 THEN q ELSE q + 1

\* UrlretrieveProgressIndicator.__init__; last_percentage None is <<>>.
\* emitted and computed record what was printed and what was computed;
\* raised records that __call__ ended in ZeroDivisionError.
NewReporter ==
  [ last_percentage |-> << >>, emitted |-> << >>, computed |-> << >>,
    calls |-> 0, raised |-> FALSE ]

\* UrlretrieveProgressIndicator.__call__(block_num, block_size, total_size).
Call(self, block_num, block_size, total_size) ==
  IF total_size = 0
  THEN [self EXCEPT !.calls = @ + 1, !.raised = TRUE]
  ELSE LET curr_percentage == Round(100 * block_num * block_size, total_size)
       IN  IF << curr_percentage >> # self.last_percentage
           THEN [self EXCEPT !.calls = @ + 1,
                             !.computed = Append(@, curr_percentage),
                             !.emitted = Append(@, curr_percentage),
                             !.last_percentage = << curr_percentage >>]
           ELSE [self EXCEPT !.calls = @ + 1,
                             !.computed = Append(@, curr_percentage)]

\* ------------------------------------------------------------------- Init

Init ==
  /\ pc = "load"
  /\ loadIdx = 1
  /\ registry \in SUBSET AllSplits
  /\ dirExists \in BOOLEAN
  /\ cache \in [UrlIdx -> {"absent", "data"}]
  /\ (~dirExists => cache = NoFiles)
  /\ urlIdx = 1
  /\ blockNum = 0
  /\ blockSize = 1
  /\ totalSize = -1
  /\ reporter = NewReporter
  /\ staging = FALSE
  /\ tryFailure = "none"
  /\ error = "none"
  /\ cache0 = cache
  /\ registry0 = registry
  /\ attempts = NoAttempts
  /\ fetchCalls = 0
  /\ fetchReturned = FALSE
  /\ installCalls = 0
  /\ cacheAtInstall = NoFiles
  /\ stagingMade = FALSE
  /\ reported = 0


\* --------------------------------------------- main: the presence check

\* The failures of the try block of main, by cause:
\*   "NotRegistered"   the AssertionError tfds.load(download = False) raises
\*                     when the data of the split is not found,
\*   "AssertionOther"  an AssertionError raised for any other reason (the
\*                     comment in main: "it usually means that the dataset
\*                     is not installed yet"),
\*   "OtherError"      an exception of any other class.
ExcClass(kind) ==
  IF kind \in {"NotRegistered", "AssertionOther"}
  THEN "AssertionError" ELSE "Exception"

\* What tfds.load("coco/2017", split = s, download = False) can do.
LoadOutcomes(s) ==
  IF s \in registry
  THEN {"ok", "AssertionOther", "OtherError"}
  ELSE {"NotRegistered", "OtherError"}

\* An exception of the given cause leaves the try block of main:
\* "except AssertionError" sends it to the installation, any other class
\* ends the run.
MainRaise(kind) ==
  /\ tryFailure' = kind
  /\ IF ExcClass(kind) = "AssertionError"
     THEN pc' = "download" /\ error' = error
     ELSE pc' = "failed" /\ error' = kind

\* One of the three tfds.load calls returns a dataset.
LoadOk ==
  /\ pc = "load"
  /\ "ok" \in LoadOutcomes(Splits[loadIdx])
  /\ IF loadIdx < Len(Splits)
     THEN loadIdx' = loadIdx + 1 /\ pc' = pc
     ELSE loadIdx' = loadIdx /\ pc' = "report"
  /\ UNCHANGED << tryFailure, error, urlIdx, staging >>
  /\ UNCHANGED << persistent, transfer, observed >>

\* One of the three tfds.load calls raises.
LoadRaises ==
  /\ pc = "load"
  /\ \E kind \in LoadOutcomes(Splits[loadIdx]) \ {"ok"} : MainRaise(kind)
  /\ UNCHANGED << loadIdx, urlIdx, staging >>
  /\ UNCHANGED << persistent, transfer, observed >>

\* The four print calls after the loads: the header and one sample count
\* per split; the try block ends and main returns.
Report ==
  /\ pc = "report"
  /\ reported' = Len(Splits)
  /\ pc' = "done"
  /\ UNCHANGED << loadIdx, urlIdx, staging, tryFailure, error >>
  /\ UNCHANGED << persistent, transfer >>
  /\ UNCHANGED << cache0, registry0, attempts, fetchCalls, fetchReturned,
                  installCalls, cacheAtInstall, stagingMade >>

\* cardinality().numpy() raises after n sample counts were printed.
ReportRaises ==
  /\ pc = "report"
  /\ \E n \in 0..(Len(Splits) - 1) : reported' = n
  /\ \E kind \in {"AssertionOther", "OtherError"} : MainRaise(kind)
  /\ UNCHANGED << loadIdx, urlIdx, staging >>
  /\ UNCHANGED << persistent, transfer >>
  /\ UNCHANGED << cache0, registry0, attempts, fetchCalls, fetchReturned,
                  installCalls, cacheAtInstall, stagingMade >>

\* --------------------------------------------------- download_coco2017

\* main calls download_coco2017; the cache directory exists or
\* os.makedirs creates it.
FetchBegin ==
  /\ pc = "download"
  /\ fetchCalls' = fetchCalls + 1
  /\ dirExists' = TRUE
  /\ urlIdx' = 1
  /\ pc' = "fetch"
  /\ UNCHANGED << loadIdx, staging, tryFailure, error, registry, cache >>
  /\ UNCHANGED transfer
  /\ UNCHANGED << cache0, registry0, attempts, fetchReturned, installCalls,
                  cacheAtInstall, stagingMade, reported >>

\* os.makedirs raises.
MakedirsFails ==
  /\ pc = "download"
  /\ ~dirExists
  /\ fetchCalls' = fetchCalls + 1
  /\ error' = "MakedirsError"
  /\ pc' = "failed"
  /\ UNCHANGED << loadIdx, urlIdx, staging, tryFailure >>
  /\ UNCHANGED << persistent, transfer >>
  /\ UNCHANGED << cache0, registry0, attempts, fetchReturned, installCalls,
                  cacheAtInstall, stagingMade, reported >>

\* StartDownload without the os.path.exists test: an entry is downloaded
\* whether or not its file is there.
StartDownloadAlways ==
  /\ pc = "fetch"
  /\ urlIdx \in UrlIdx
  /\ attempts' = [attempts EXCEPT ![urlIdx] = @ + 1]
  /\ cache' = [cache EXCEPT ![urlIdx] = "partial"]
  /\ \E bs \in BlockSizes, size \in TotalSizes :
       /\ blockSize' = bs
       /\ totalSize' = size
       /\ reporter' = Call(NewReporter, 0, bs, size)
  /\ blockNum' = 0
  /\ IF reporter'.raised
     THEN pc' = "failed" /\ error' = "ZeroDivisionError"
     ELSE pc' = "xfer" /\ error' = error
  /\ UNCHANGED << loadIdx, urlIdx, staging, tryFailure, registry, dirExists >>
  /\ UNCHANGED << cache0, registry0, fetchCalls, fetchReturned, installCalls,
                  cacheAtInstall, stagingMade, reported >>

\* os.path.exists(file_local_full): "Already downloaded".
SkipExisting ==
  /\ pc = "fetch"
  /\ urlIdx \in UrlIdx
  /\ cache[urlIdx] # "absent"
  /\ urlIdx' = urlIdx + 1
  /\ UNCHANGED << pc, loadIdx, staging, tryFailure, error >>
  /\ UNCHANGED << persistent, transfer, observed >>

\* urlretrieve is called with a new UrlretrieveProgressIndicator; the
\* server answers, the local file is opened for writing, and the hook is
\* called with block number 0.  An exception of the hook ends urlretrieve.
StartDownload ==
  /\ pc = "fetch"
  /\ urlIdx \in UrlIdx
  /\ cache[urlIdx] = "absent"
  /\ attempts' = [attempts EXCEPT ![urlIdx] = @ + 1]
  /\ cache' = [cache EXCEPT ![urlIdx] = "partial"]
  /\ \E bs \in BlockSizes, size \in TotalSizes :
       /\ blockSize' = bs
       /\ totalSize' = size
       /\ reporter' = Call(NewReporter, 0, bs, size)
  /\ blockNum' = 0
  /\ IF reporter'.raised
     THEN pc' = "failed" /\ error' = "ZeroDivisionError"
     ELSE pc' = "xfer" /\ error' = error
  /\ UNCHANGED << loadIdx, urlIdx, staging, tryFailure, registry, dirExists >>
  /\ UNCHANGED << cache0, registry0, fetchCalls, fetchReturned, installCalls,
                  cacheAtInstall, stagingMade, reported >>

\* urlretrieve raises before the local file exists (urlopen fails).
OpenFails ==
  /\ pc = "fetch"
  /\ urlIdx \in UrlIdx
  /\ cache[urlIdx] = "absent"
  /\ attempts' = [attempts EXCEPT ![urlIdx] = @ + 1]
  /\ error' = "FetchError"
  /\ pc' = "failed"
  /\ UNCHANGED << loadIdx, urlIdx, staging, tryFailure >>
  /\ UNCHANGED << persistent, transfer >>
  /\ UNCHANGED << cache0, registry0, fetchCalls, fetchReturned, installCalls,
                  cacheAtInstall, stagingMade, reported >>

\* urlretrieve reads and writes one block and calls the hook.
ReadBlock ==
  /\ pc = "xfer"
  /\ blockNum < MaxBlocks
  /\ blockNum' = blockNum + 1
  /\ reporter' = Call(reporter, blockNum + 1, blockSize, totalSize)
  /\ IF reporter'.raised
     THEN pc' = "failed" /\ error' = "ZeroDivisionError"
     ELSE pc' = pc /\ error' = error
  /\ UNCHANGED << loadIdx, urlIdx, staging, tryFailure, blockSize, totalSize >>
  /\ UNCHANGED << persistent, observed >>

\* ReadFails with the exception of urlretrieve caught inside the loop: the
\* loop goes on with the next entry.
ReadFailsAndContinues ==
  /\ pc = "xfer"
  /\ urlIdx' = urlIdx + 1
  /\ pc' = "fetch"
  /\ blockNum' = 0 /\ blockSize' = 1 /\ totalSize' = -1
  /\ reporter' = NewReporter
  /\ UNCHANGED << loadIdx, staging, tryFailure, error >>
  /\ UNCHANGED << persistent, observed >>

\* The connection or the write fails in the middle of the transfer.
ReadFails ==
  /\ pc = "xfer"
  /\ error' = "FetchError"
  /\ pc' = "failed"
  /\ UNCHANGED << loadIdx, urlIdx, staging, tryFailure >>
  /\ UNCHANGED << persistent, transfer, observed >>

\* The byte counts the blocks read so far can add up to: every block but
\* the last is full, the last holds at least one byte.
ReadCounts ==
  IF blockNum = 0 THEN {0}
  ELSE ((blockNum - 1) * blockSize + 1)..(blockNum * blockSize)

\* The server's data ends: urlretrieve raises ContentTooShortError when
\* fewer bytes than announced were read (the file stays), and otherwise
\* returns; "Done!" is printed and the loop goes on.
EndOfData ==
  /\ pc = "xfer"
  /\ \E read \in ReadCounts :
       IF totalSize >= 0 /\ read < totalSize
       THEN /\ error' = "ContentTooShortError"
            /\ pc' = "failed"
            /\ UNCHANGED << urlIdx, cache, transfer >>
       ELSE /\ cache' = [cache EXCEPT ![urlIdx] = "data"]
            /\ urlIdx' = urlIdx + 1
            /\ pc' = "fetch"
            /\ blockNum' = 0 /\ blockSize' = 1 /\ totalSize' = -1
            /\ reporter' = NewReporter
            /\ error' = error
  /\ UNCHANGED << loadIdx, staging, tryFailure, registry, dirExists >>
  /\ UNCHANGED observed

\* FetchReturn with a loop that stops one entry short.
FetchReturnEarly ==
  /\ pc = "fetch"
  /\ urlIdx >= Len(Urls)
  /\ fetchReturned' = TRUE
  /\ pc' = "install"
  /\ UNCHANGED << loadIdx, urlIdx, staging, tryFailure, error >>
  /\ UNCHANGED << persistent, transfer >>
  /\ UNCHANGED << cache0, registry0, attempts, fetchCalls, installCalls,
                  cacheAtInstall, stagingMade, reported >>

\* The for loop is over: download_coco2017 returns to main.
FetchReturn ==
  /\ pc = "fetch"
  /\ urlIdx = Len(Urls) + 1
  /\ fetchReturned' = TRUE
  /\ pc' = "install"
  /\ UNCHANGED << loadIdx, urlIdx, staging, tryFailure, error >>
  /\ UNCHANGED << persistent, transfer >>
  /\ UNCHANGED << cache0, registry0, attempts, fetchCalls, installCalls,
                  cacheAtInstall, stagingMade, reported >>


\* ----------------------------------------------------- install_coco2017

\* main calls install_coco2017; tempfile.TemporaryDirectory creates the
\* extract_tmp_ directory and the with block is entered.
InstallEnter ==
  /\ pc = "install"
  /\ installCalls' = installCalls + 1
  /\ cacheAtInstall' = cache
  /\ staging' = TRUE
  /\ stagingMade' = TRUE
  /\ pc' = "install_body"
  /\ UNCHANGED << loadIdx, urlIdx, tryFailure, error >>
  /\ UNCHANGED << persistent, transfer >>
  /\ UNCHANGED << cache0, registry0, attempts, fetchCalls, fetchReturned,
                  reported >>

\* tempfile.TemporaryDirectory raises: no directory was created.
MkdtempFails ==
  /\ pc = "install"
  /\ installCalls' = installCalls + 1
  /\ cacheAtInstall' = cache
  /\ error' = "InstallError"
  /\ pc' = "failed"
  /\ UNCHANGED << loadIdx, urlIdx, staging, tryFailure >>
  /\ UNCHANGED << persistent, transfer >>
  /\ UNCHANGED << cache0, registry0, attempts, fetchCalls, fetchReturned,
                  stagingMade, reported >>

\* InstallBodyOk with a builder that prepares the train split alone.
InstallBodyOkTrainOnly ==
  /\ pc = "install_body"
  /\ registry' = registry \cup {"train"}
  /\ pc' = "install_exit"
  /\ UNCHANGED << loadIdx, urlIdx, staging, tryFailure, error, dirExists,
                  cache >>
  /\ UNCHANGED << transfer, observed >>

\* The body of the with block runs to its end: download_and_prepare reads
\* manual_dir, extracts into extract_dir and writes the dataset under
\* TFDS_DATA_DIR.
InstallBodyOk ==
  /\ pc = "install_body"
  /\ registry' = registry \cup AllSplits
  /\ pc' = "install_exit"
  /\ UNCHANGED << loadIdx, urlIdx, staging, tryFailure, error, dirExists,
                  cache >>
  /\ UNCHANGED << transfer, observed >>

\* InstallBodyRaises with extract_dir set to the cache directory: what was
\* extracted so far, and the archives with it, is removed on the failure.
InstallBodyRaisesWipesCache ==
  /\ pc = "install_body"
  /\ error' = "InstallError"
  /\ pc' = "install_exit"
  /\ cache' = NoFiles
  /\ UNCHANGED << loadIdx, urlIdx, staging, tryFailure, registry, dirExists >>
  /\ UNCHANGED << transfer, observed >>

\* DownloadConfig, tfds.builder or download_and_prepare raises.
InstallBodyRaises ==
  /\ pc = "install_body"
  /\ error' = "InstallError"
  /\ pc' = "install_exit"
  /\ UNCHANGED << loadIdx, urlIdx, staging, tryFailure >>
  /\ UNCHANGED << persistent, transfer, observed >>

\* InstallExit with the removal written after the body instead of in a
\* with block: an exception skips it.
InstallExitKeepsOnError ==
  /\ pc = "install_exit"
  /\ staging' = (error # "none")
  /\ pc' = IF error = "none" THEN "done" ELSE "failed"
  /\ UNCHANGED << loadIdx, urlIdx, tryFailure, error >>
  /\ UNCHANGED << persistent, transfer, observed >>

\* The with block is left, normally or by the exception: __exit__ removes
\* the directory; then "Installation completed!" or the exception goes on
\* to main and ends the run.
InstallExit ==
  /\ pc = "install_exit"
  /\ staging' = FALSE
  /\ pc' = IF error = "none" THEN "done" ELSE "failed"
  /\ UNCHANGED << loadIdx, urlIdx, tryFailure, error >>
  /\ UNCHANGED << persistent, transfer, observed >>

\* ------------------------------------------------------------ the script

\* The script is started again after a run has ended: what is on disk
\* stays, everything else starts afresh.
Restart ==
  /\ pc \in {"done", "failed"}
  /\ pc' = "load"
  /\ loadIdx' = 1
  /\ urlIdx' = 1
  /\ blockNum' = 0 /\ blockSize' = 1 /\ totalSize' = -1
  /\ reporter' = NewReporter
  /\ tryFailure' = "none"
  /\ error' = "none"
  /\ cache0' = cache
  /\ registry0' = registry
  /\ attempts' = NoAttempts
  /\ fetchCalls' = 0
  /\ fetchReturned' = FALSE
  /\ installCalls' = 0
  /\ cacheAtInstall' = NoFiles
  /\ stagingMade' = FALSE
  /\ reported' = 0
  /\ UNCHANGED << staging, persistent >>

Next ==
  \/ LoadOk
  \/ LoadRaises
  \/ Report
  \/ ReportRaises
  \/ FetchBegin
  \/ MakedirsFails
  \/ SkipExisting
  \/ StartDownload
  \/ OpenFails
  \/ ReadBlock
  \/ ReadFails
  \/ EndOfData
  \/ FetchReturn
  \/ InstallEnter
  \/ MkdtempFails
  \/ InstallBodyOk
  \/ InstallBodyRaises
  \/ InstallExit
  \/ Restart

Spec == Init /\ [][Next]_vars


\* ============================================================ properties

Ended == pc \in {"done", "failed"}
AllPresent(c) == \A i \in UrlIdx : c[i] # "absent"
RECURSIVE SumTo(_, _)
SumTo(f, n) == IF n = 0 THEN 0 ELSE f[n] + SumTo(f, n - 1)
Downloads == SumTo(attempts, Len(Urls))

\* The exceptions with which a call of urlretrieve ends.
DownloadErrors == {"FetchError", "ZeroDivisionError", "ContentTooShortError"}

\* s is a subsequence of t (greedy match from the left).
RECURSIVE IsSubseq(_, _)
IsSubseq(s, t) ==
  IF s = << >> THEN TRUE
  ELSE IF t = << >> THEN FALSE
  ELSE IF Head(s) = Head(t) THEN IsSubseq(Tail(s), Tail(t))
  ELSE IsSubseq(s, Tail(t))
NoRepeat(s) == \A i \in 1..(Len(s) - 1) : s[i] # s[i + 1]
NonDecreasing(s) == \A i \in 1..(Len(s) - 1) : s[i] <= s[i + 1]

\* C1: once install_coco2017 has returned or has propagated an exception,
\* the staging directory it created does not exist; and the directory only
\* ever exists inside the with block.
StagingRemovedAfterInstall ==
  /\ (installCalls > 0 /\ Ended) => ~staging
  /\ staging => pc \in {"install_body", "install_exit"}

\* C1 witness: install_coco2017 created the directory, download_and_prepare
\* raised, and the exception has reached main.
StagingRemovedAfterFailure ==
  pc = "failed" /\ error = "InstallError" /\ stagingMade /\ ~staging

\* C2: a manifest entry whose file exists when the run starts is never
\* downloaded and its file stays as it was; with all five present the run
\* downloads nothing and the cache is what it was.
FetchSkipsExisting ==
  /\ \A i \in UrlIdx :
       cache0[i] # "absent" => attempts[i] = 0 /\ cache[i] = cache0[i]
  /\ AllPresent(cache0) => Downloads = 0 /\ cache = cache0

\* C2 witness: download_coco2017 ran to its end over a cache that held all
\* five files, one of them left by an earlier, failed run.
FetchOverFullCache ==
  /\ fetchReturned
  /\ AllPresent(cache0)
  /\ \E i \in UrlIdx : cache0[i] = "partial"
  /\ Downloads = 0

\* C3: a run that starts with all three splits in the registry downloads
\* nothing and installs nothing, and when it returns the three sample
\* counts have been printed.
FullRegistryRunOnlyReports ==
  registry0 = AllSplits =>
    /\ fetchCalls = 0 /\ installCalls = 0 /\ Downloads = 0
    /\ (pc = "done" => reported = Len(Splits))

\* C3, the runs in whose presence check nothing raises: such a run over a
\* full registry downloads nothing, installs nothing and ends by returning
\* with the three sample counts printed.
InstalledRunOnlyReports ==
  (registry0 = AllSplits /\ tryFailure = "none") =>
    /\ fetchCalls = 0 /\ installCalls = 0 /\ Downloads = 0
    /\ pc \in {"load", "report", "done"}
    /\ (Ended => pc = "done" /\ reported = Len(Splits))

\* C3, the runs in whose presence check nothing raises: one has ended.
InstalledRunReported ==
  /\ registry0 = AllSplits /\ tryFailure = "none"
  /\ pc = "done" /\ reported = Len(Splits) /\ fetchCalls = 0

\* C4: only the failure that signals "not in the registry" leads to the
\* installation; a presence check that failed in any other way has ended
\* the run with that error, with neither stage called.
OnlyNotRegisteredInstalls ==
  tryFailure \notin {"none", "NotRegistered"} =>
    /\ pc = "failed" /\ error = tryFailure
    /\ fetchCalls = 0 /\ installCalls = 0

\* C5: when install_coco2017 fails, the cache holds the files, with the
\* contents, it held when install_coco2017 was called.
FailedInstallKeepsCache ==
  (installCalls > 0 /\ error = "InstallError") => cache = cacheAtInstall

\* C5 witness: the install stage failed inside the with block, after a
\* fetch stage that downloaded at least one file in this run.
FailedInstallAfterDownloads ==
  /\ pc = "failed" /\ error = "InstallError" /\ stagingMade
  /\ Downloads > 0
  /\ cache = cacheAtInstall

\* C6: when a download fails, the run has ended: the failed entry was tried
\* once, no later entry was tried or touched, install_coco2017 was not
\* called, and each earlier entry still has its file (the downloaded ones
\* complete).
DownloadFailureAborts ==
  (error \in DownloadErrors) =>
    /\ pc = "failed"
    /\ urlIdx \in UrlIdx
    /\ attempts[urlIdx] = 1
    /\ \A j \in UrlIdx : j > urlIdx => attempts[j] = 0 /\ cache[j] = cache0[j]
    /\ installCalls = 0 /\ ~fetchReturned
    /\ \A j \in UrlIdx : j < urlIdx =>
         /\ cache[j] # "absent"
         /\ attempts[j] <= 1
         /\ (attempts[j] = 1 => cache[j] = "data")
         /\ (attempts[j] = 0 => cache[j] = cache0[j])

\* C6 witness: the third download failed in the middle of the transfer
\* after the first two entries had been downloaded in this run.
ThirdDownloadFailed ==
  /\ pc = "failed" /\ error = "FetchError" /\ urlIdx = 3
  /\ cache[3] = "partial"
  /\ attempts[1] = 1 /\ attempts[2] = 1
  /\ cache[1] = "data" /\ cache[2] = "data"

\* C7: a run that starts with no file in the cache and no split in the
\* registry and ends without a failure has downloaded each of the five
\* files once, all five are in the cache, the registry holds the three
\* splits and there is no staging directory.
FreshRunInstalls ==
  (pc = "done" /\ cache0 = NoFiles /\ registry0 = {}) =>
    /\ \A i \in UrlIdx : cache[i] = "data" /\ attempts[i] = 1
    /\ Downloads = Len(Urls)
    /\ registry = AllSplits
    /\ ~staging
    /\ fetchCalls = 1 /\ installCalls = 1

\* C7 witness: such a run has ended, the cache directory itself having
\* been created by it.
FreshRunEnded ==
  /\ pc = "done" /\ cache0 = NoFiles /\ registry0 = {}
  /\ installCalls = 1 /\ stagingMade /\ dirExists

\* C8: what one reporter printed is a subsequence of what it computed, no
\* value is printed twice in a row, the first sample is printed, and the
\* printed values do not decrease when the computed ones do not.
ReporterCoalesces ==
  reporter.calls > 0 =>
    /\ Len(reporter.emitted) >= 1
    /\ IsSubseq(reporter.emitted, reporter.computed)
    /\ NoRepeat(reporter.emitted)
    /\ (NonDecreasing(reporter.computed) => NonDecreasing(reporter.emitted))

\* C9: a call of the reporter with total_size = 0 does not raise, and the
\* transfer that made the call is not ended by it.
ReporterSurvivesZeroTotal ==
  (reporter.calls > 0 /\ totalSize = 0) =>
    ~reporter.raised /\ error # "ZeroDivisionError"

\* C10: each stage is called at most once in a run; install_coco2017 is
\* called only after download_coco2017 has returned in this run, and when
\* it is called each of the five manifest entries has a file in the cache.
InstallAfterFetch ==
  /\ fetchCalls <= 1 /\ installCalls <= 1
  /\ (pc \in {"install", "install_body", "install_exit"} \/ installCalls > 0)
       => fetchReturned /\ fetchCalls = 1
  /\ pc = "install" => AllPresent(cache)
  /\ installCalls > 0 => AllPresent(cacheAtInstall)

\* C10 witness: install_coco2017 is inside its with block, over a cache
\* whose last file was downloaded in this run.
InstallRunning ==
  /\ pc = "install_body" /\ installCalls = 1 /\ fetchReturned
  /\ attempts[Len(Urls)] = 1

====
